---- MODULE Spec2Model ----
(***************************************************************************)
(* VScanner: the scanner contract (core/base_scanner.py), the four         *)
(* detection strategies (scanners/*.py) and their configuration tables     *)
(* (core/config.py), as a state machine.                                   *)
(*                                                                         *)
(* One scanner instance is followed through a sequence of scan() calls.    *)
(* A scan blocks on every HTTP request; the step between two requests is   *)
(* one action, and the network's answer is the action's input.             *)
(*                                                                         *)
(* Text is modelled at token granularity: a URL or a header value is a     *)
(* sequence of tokens ("http", "://", "example.com", "?", ...), a query    *)
(* name or value, a payload, a header name are single tokens.  A response  *)
(* body is abstracted to the two observations the scanners make of it:     *)
(* the set of fragments that occur in it and its length.                   *)
(***************************************************************************)
EXTENDS Integers, Sequences, FiniteSets, TLC

(***************************************************************************)
(* Bounds of the exploration.                                              *)
(***************************************************************************)
\* answers in a run of one scan() call that are not the quiet one (the
\* quiet one: status 200, a plain body, no redirect, no security header,
\* Allow: GET, HEAD)
MaxEvents == 2
\* the answers of one call that are not the quiet one lie within this many
\* consecutive requests of the call
MaxSpread == 3
\* answers that are not the quiet one in a run of two successive calls
MaxCallEvents == 1

\* answers other than the quiet one, and errors raised out of scan, that a
\* run of main() may get
MaxMainEvents == 1

\* fields of a query string given to extract_params on its own
MaxFields == 3

(***************************************************************************)
(* core/config.py                                                          *)
(***************************************************************************)
XSS_PAYLOADS ==
  << "<script>alert(1)</script>",
     "<img src=x onerror=alert(1)>",
     "';alert(1);//",
     "<svg/onload=alert(1)>",
     "javascript:alert(1)" >>

SQLI_PAYLOADS ==
  << "' OR '1'='1",
     "\" OR \"1\"=\"1",
     "' UNION SELECT NULL--",
     "1; DROP TABLE users--",
     "' AND 1=2 UNION SELECT NULL--",
     "admin'--" >>

REDIRECT_PARAMS ==
  << "redirect", "url", "next", "return", "goto", "redir", "continue" >>

MALICIOUS_REDIRECT_TARGET == "https://malicious-example.com"

REQUIRED_SECURITY_HEADERS ==
  << "X-Frame-Options",
     "X-XSS-Protection",
     "Content-Security-Policy",
     "Strict-Transport-Security",
     "X-Content-Type-Options" >>

FORBIDDEN_HTTP_METHODS == << "TRACE", "TRACK" >>

SQL_ERROR_PATTERNS ==
  << "MySQL server version for the right syntax",
     "PG::SyntaxError:",
     "ORA-01756:",
     "Unclosed quotation mark after the character string",
     "sqlite3.OperationalError",
     "SQL syntax",
     "mysql_fetch",
     "Warning: pg_" >>

RESPONSE_LENGTH_THRESHOLD == 50

(***************************************************************************)
(* Sequences and ordered dictionaries (a dict is a sequence of <<key,      *)
(* value>> pairs with distinct keys, in insertion order).                  *)
(***************************************************************************)
Range(s) == { s[i] : i \in 1..Len(s) }

\* index of the first occurrence of tok in s, 0 when there is none
IndexOf(s, tok) ==
  IF \E i \in 1..Len(s) : s[i] = tok
    THEN CHOOSE i \in 1..Len(s) : s[i] = tok /\ \A k \in 1..(i - 1) : s[k] # tok
    ELSE 0

\* index of the first occurrence of the contiguous run sep in s, 0 when none
FindSep(s, sep) ==
  LET n == Len(sep)
      Hit(i) == i + n - 1 <= Len(s) /\ SubSeq(s, i, i + n - 1) = sep
  IN  IF \E i \in 1..Len(s) : Hit(i)
        THEN CHOOSE i \in 1..Len(s) : Hit(i) /\ \A k \in 1..(i - 1) : ~Hit(k)
        ELSE 0

RECURSIVE Split(_, _)
\* Python's s.split(sep): always at least one piece
Split(s, sep) ==
  LET i == FindSep(s, sep)
  IN  IF i = 0
        THEN << s >>
        ELSE << SubSeq(s, 1, i - 1) >> \o Split(SubSeq(s, i + Len(sep), Len(s)), sep)

DictKeys(d) == [ i \in 1..Len(d) |-> d[i][1] ]

DictHas(d, k) == \E i \in 1..Len(d) : d[i][1] = k

DictGet(d, k) == d[CHOOSE i \in 1..Len(d) : d[i][1] = k][2]

\* d[k] = v: an existing key keeps its position, a new key goes last
DictSet(d, k, v) ==
  IF DictHas(d, k)
    THEN [ i \in 1..Len(d) |-> IF d[i][1] = k THEN << k, v >> ELSE d[i] ]
    ELSE Append(d, << k, v >>)

(***************************************************************************)
(* urllib.parse, on token sequences                                        *)
(***************************************************************************)
\* tokens of the one configuration string that is parsed as a URL
UrlTokens(s) ==
  CASE s = MALICIOUS_REDIRECT_TARGET -> << "https", "://", "malicious-example.com" >>
    [] OTHER -> << s >>

\* quote_plus on a token
Quote(s) ==
  CASE s = "<script>alert(1)</script>" -> "%3Cscript%3Ealert%281%29%3C%2Fscript%3E"
    [] s = "<img src=x onerror=alert(1)>" -> "%3Cimg+src%3Dx+onerror%3Dalert%281%29%3E"
    [] s = "';alert(1);//" -> "%27%3Balert%281%29%3B%2F%2F"
    [] s = "<svg/onload=alert(1)>" -> "%3Csvg%2Fonload%3Dalert%281%29%3E"
    [] s = "javascript:alert(1)" -> "javascript%3Aalert%281%29"
    [] s = "' OR '1'='1" -> "%27+OR+%271%27%3D%271"
    [] s = "\" OR \"1\"=\"1" -> "%22+OR+%221%22%3D%221"
    [] s = "' UNION SELECT NULL--" -> "%27+UNION+SELECT+NULL--"
    [] s = "1; DROP TABLE users--" -> "1%3B+DROP+TABLE+users--"
    [] s = "' AND 1=2 UNION SELECT NULL--" -> "%27+AND+1%3D2+UNION+SELECT+NULL--"
    [] s = "admin'--" -> "admin%27--"
    [] s = "https://malicious-example.com" -> "https%3A%2F%2Fmalicious-example.com"
    [] s = "a b" -> "a+b"
    [] OTHER -> s

\* unquote (with "+" as space) on a token, as parse_qs applies it
Unquote(s) ==
  CASE s = "a+b" -> "a b"
    [] s = "a%20b" -> "a b"
    [] OTHER -> s

RECURSIVE EncodePairs(_)
\* urlencode(dict): name=value pairs joined by "&"
EncodePairs(d) ==
  IF d = << >>
    THEN << >>
    ELSE << Quote(d[1][1]), "=", Quote(d[1][2]) >>
         \o (IF Len(d) > 1 THEN << "&" >> ELSE << >>)
         \o EncodePairs(Tail(d))

urlencode(d) == EncodePairs(d)

\* the part of a URL before its fragment
BeforeFragment(url) ==
  LET h == IndexOf(url, "#")
  IN  IF h = 0 THEN url ELSE SubSeq(url, 1, h - 1)

\* urlparse(url).scheme ("" when there is none)
UrlScheme(url) ==
  IF Len(url) >= 2 /\ url[2] = "://" /\ url[1] \notin {"://", "/", "?", "#"}
    THEN url[1]
    ELSE ""

\* urlparse(url).netloc: what follows "://" up to the next "/", "?" or "#"
UrlNetloc(url) ==
  LET s == IndexOf(url, "://")
      rest == SubSeq(url, s + 1, Len(url))
      Stop(i) == rest[i] \in {"/", "?", "#"}
      e == IF \E i \in 1..Len(rest) : Stop(i)
             THEN (CHOOSE i \in 1..Len(rest) : Stop(i) /\ \A k \in 1..(i - 1) : ~Stop(k)) - 1
             ELSE Len(rest)
  IN  IF s = 0 \/ s > 2 THEN << >> ELSE SubSeq(rest, 1, e)

\* urlparse(url).query: after the first "?" of the part before the fragment
UrlQuery(url) ==
  LET u == BeforeFragment(url)
      q == IndexOf(u, "?")
  IN  IF q = 0 THEN << >> ELSE SubSeq(u, q + 1, Len(u))

\* parse_qsl(query): the <<name, value>> pairs in order; a pair without
\* "=" or with a blank value is dropped (keep_blank_values is False)
parse_qsl(query) ==
  LET pieces == Split(query, << "&" >>)
      NV(p) == Split(p, << "=" >>)
      Tok(x) == IF x = << >> THEN "" ELSE x[1]
      Keep(p) == p # << >> /\ Len(NV(p)) >= 2 /\ NV(p)[2] # << >>
      F[i \in 0..Len(pieces)] ==
        IF i = 0 THEN << >>
        ELSE IF Keep(pieces[i])
          THEN Append(F[i - 1], << Unquote(Tok(NV(pieces[i])[1])), Unquote(Tok(NV(pieces[i])[2])) >>)
          ELSE F[i - 1]
  IN  F[Len(pieces)]

\* parse_qs(query): name -> list of its values, names in order of first use
parse_qs(query) ==
  LET pairs == parse_qsl(query)
      F[i \in 0..Len(pairs)] ==
        IF i = 0 THEN << >>
        ELSE LET k == pairs[i][1]
                 v == pairs[i][2]
             IN  IF DictHas(F[i - 1], k)
                   THEN DictSet(F[i - 1], k, Append(DictGet(F[i - 1], k), v))
                   ELSE DictSet(F[i - 1], k, << v >>)
  IN  F[Len(pairs)]

(***************************************************************************)
(* core/base_scanner.py                                                    *)
(***************************************************************************)
\* extract_params taking the query to be what follows the first "?", the
\* way get_base_url cuts the URL, instead of the parsed URL's query
extract_params_split(target_url) ==
  LET parts == Split(target_url, << "?" >>)
      qs == parse_qs(IF Len(parts) > 1 THEN parts[2] ELSE << >>)
  IN  IF qs # << >>
        THEN [ i \in 1..Len(qs) |-> << qs[i][1], qs[i][2][1] >> ]
        ELSE << >>

\* BaseScanner.extract_params
extract_params(target_url) ==
  LET qs == parse_qs(UrlQuery(target_url))
  IN  IF qs # << >>
        THEN [ i \in 1..Len(qs) |-> << qs[i][1], qs[i][2][1] >> ]
        ELSE << >>

\* BaseScanner.get_base_url
get_base_url(target_url) == Split(target_url, << "?" >>)[1]

\* a trial that writes the payload into the scan's own dictionary, no copy
\* being made
KeptParams_alias(params_, modified_params) == modified_params

\* the scan's dictionary after "modified_params = params.copy()" and
\* "modified_params[param] = payload": the assignment went to the copy
KeptParams(params_, modified_params) == params_

(***************************************************************************)
(* Python str and response bodies                                          *)
(***************************************************************************)
\* str.lower() on the header names that occur
lower(s) ==
  CASE s = "X-Frame-Options" -> "x-frame-options"
    [] s = "X-FRAME-OPTIONS" -> "x-frame-options"
    [] s = "X-XSS-Protection" -> "x-xss-protection"
    [] s = "X-XSS-PROTECTION" -> "x-xss-protection"
    [] s = "Content-Security-Policy" -> "content-security-policy"
    [] s = "CONTENT-SECURITY-POLICY" -> "content-security-policy"
    [] s = "Strict-Transport-Security" -> "strict-transport-security"
    [] s = "STRICT-TRANSPORT-SECURITY" -> "strict-transport-security"
    [] s = "X-Content-Type-Options" -> "x-content-type-options"
    [] s = "X-CONTENT-TYPE-OPTIONS" -> "x-content-type-options"
    [] s = "Allow" -> "allow"
    [] s = "ALLOW" -> "allow"
    [] s = "Server" -> "server"
    [] s = "SERVER" -> "server"
    [] OTHER -> s

\* str.upper() on the header names that occur
upper(s) ==
  CASE s = "X-Frame-Options" -> "X-FRAME-OPTIONS"
    [] s = "x-frame-options" -> "X-FRAME-OPTIONS"
    [] s = "X-XSS-Protection" -> "X-XSS-PROTECTION"
    [] s = "x-xss-protection" -> "X-XSS-PROTECTION"
    [] s = "Content-Security-Policy" -> "CONTENT-SECURITY-POLICY"
    [] s = "content-security-policy" -> "CONTENT-SECURITY-POLICY"
    [] s = "Strict-Transport-Security" -> "STRICT-TRANSPORT-SECURITY"
    [] s = "strict-transport-security" -> "STRICT-TRANSPORT-SECURITY"
    [] s = "X-Content-Type-Options" -> "X-CONTENT-TYPE-OPTIONS"
    [] s = "x-content-type-options" -> "X-CONTENT-TYPE-OPTIONS"
    [] s = "Allow" -> "ALLOW"
    [] s = "allow" -> "ALLOW"
    [] s = "Server" -> "SERVER"
    [] s = "server" -> "SERVER"
    [] OTHER -> s

\* "s in response.text"
Contains(text, s) == s \in text.frags

\* len(response.text)
TextLen(text) == text.length

\* abs()
Abs(n) == IF n < 0 THEN -n ELSE n

(***************************************************************************)
(* The HTTP probe client (requests) as the scanners see it                 *)
(***************************************************************************)
\* requests.exceptions.RequestException raised by the call
Failure == [ ok |-> FALSE ]

\* a Response object
Response(status_code, text, url, headers) ==
  [ ok |-> TRUE, status_code |-> status_code, text |-> text, url |-> url,
    headers |-> headers ]

\* the arguments of requests.get / requests.options
Request(method, url, params, allow_redirects) ==
  [ method |-> method, url |-> url, params |-> params,
    allow_redirects |-> allow_redirects ]

\* the URL requests sends: the query built from params is appended
PreparedUrl(url, params) ==
  IF params = << >> THEN url ELSE url \o << "?" >> \o urlencode(params)

\* CaseInsensitiveDict.get(name, default)
HeaderGet(headers, name, default) ==
  IF \E i \in 1..Len(headers) : lower(headers[i][1]) = lower(name)
    THEN headers[CHOOSE i \in 1..Len(headers) : lower(headers[i][1]) = lower(name)][2]
    ELSE default

(***************************************************************************)
(* Inputs: the targets and the answers of the network                      *)
(***************************************************************************)
Targets ==
  { << "http", "://", "example.com" >>,
    << "http", "://", "example.com", "?", "name", "=", "test" >>,
    << "http", "://", "example.com", "/", "search", "?", "q", "=", "a+b", "&", "id", "=", "1" >>,
    << "http", "://", "example.com", "/", "#", "top", "?", "x", "=", "1" >> }

PlainText == [ frags |-> {}, length |-> 100 ]

\* the answer that triggers nothing: 200, a plain body, no redirect
QuietResponse(req) ==
  Response(200, PlainText, PreparedUrl(req.url, req.params), << >>)

\* answers to an XSS probe carrying payload: failure, plain, the payload
\* reflected, another payload of the table reflected
XSSOutcomes(req, payload) ==
  LET other == IF payload = XSS_PAYLOADS[1] THEN XSS_PAYLOADS[2] ELSE XSS_PAYLOADS[1]
  IN  { Failure, QuietResponse(req),
        Response(200, [ frags |-> { payload }, length |-> 140 ],
                 PreparedUrl(req.url, req.params), << >>),
        Response(200, [ frags |-> { other }, length |-> 140 ],
                 PreparedUrl(req.url, req.params), << >>) }

\* answers to the injected SQLi request: failure, plain, a MySQL syntax
\* error (holds patterns 1 and 6), a mysql_fetch warning (patterns 6 and
\* 7), a longer body without any error text
SQLiOutcomes(req) ==
  { Failure, QuietResponse(req),
    Response(500, [ frags |-> { SQL_ERROR_PATTERNS[1], SQL_ERROR_PATTERNS[6] }, length |-> 150 ],
             PreparedUrl(req.url, req.params), << >>),
    Response(200, [ frags |-> { SQL_ERROR_PATTERNS[6], SQL_ERROR_PATTERNS[7] }, length |-> 151 ],
             PreparedUrl(req.url, req.params), << >>),
    Response(200, [ frags |-> {}, length |-> 151 ],
             PreparedUrl(req.url, req.params), << >>) }

\* answers to the baseline request: failure, plain, a longer body
BaselineOutcomes(req) ==
  { Failure, QuietResponse(req),
    Response(200, [ frags |-> {}, length |-> 201 ],
             PreparedUrl(req.url, req.params), << >>) }

HeaderStyles == { "canonical", "lower", "upper" }

Spell(name, style) ==
  CASE style = "lower" -> lower(name)
    [] style = "upper" -> upper(name)
    [] OTHER -> name

\* a header set: a Server header, then the required headers of P in the
\* order of the table, all names spelled in one style
HeadersOf(P, style) ==
  LET present == SelectSeq(REQUIRED_SECURITY_HEADERS, LAMBDA h : h \in P)
  IN  [ i \in 1..(Len(present) + 1) |->
          IF i = 1 THEN << Spell("Server", style), << "nginx" >> >>
          ELSE << Spell(present[i - 1], style), << "1" >> >> ]

\* the header sets of a GET answer: every subset of the required headers
\* in the spelling of the table; the complete set and a set of two also in
\* lower and in upper case
HeaderSets ==
  { HeadersOf(P, "canonical") : P \in SUBSET Range(REQUIRED_SECURITY_HEADERS) } \cup
  { HeadersOf(P, st) :
      P \in { Range(REQUIRED_SECURITY_HEADERS),
              { REQUIRED_SECURITY_HEADERS[1], REQUIRED_SECURITY_HEADERS[3] } },
      st \in HeaderStyles \ { "canonical" } }


\* the GET answer of a server that sets no security header
QuietGet(req) == Response(200, PlainText, req.url, HeadersOf({}, "canonical"))

GetOutcomes(req) ==
  { Failure } \cup
  { Response(200, PlainText, req.url, h) : h \in HeaderSets }

\* values of the Allow header, as token sequences
AllowValues ==
  { << "GET", ",", " ", "HEAD" >>,
    << "GET", ",", " ", "POST", ",", " ", "TRACE" >>,
    << "GET", ",", "POST", ",", "TRACE" >>,
    << "TRACK", ",", " ", "TRACE" >>,
    << "TRACE" >> }

QuietOptions(req) ==
  Response(200, [ frags |-> {}, length |-> 0 ], req.url,
           << << "Allow", << "GET", ",", " ", "HEAD" >> >> >>)

OptionsOutcomes(req) ==
  { Failure, Response(200, [ frags |-> {}, length |-> 0 ], req.url, << >>) } \cup
  { Response(200, [ frags |-> {}, length |-> 0 ], req.url, << << "Allow", v >> >>) :
      v \in AllowValues } \cup
  { Response(200, [ frags |-> {}, length |-> 0 ], req.url,
             << << "allow", << "GET", ",", " ", "POST", ",", " ", "TRACE" >> >> >>) }

\* the probe answered without any redirect
QuietRedirect(req) == Response(200, PlainText, req.url, << >>)

\* final URLs of a followed redirect probe: the probe itself, the malicious
\* site, the malicious host on an explicit port, a page of the target that
\* carries the malicious URL in its query
RedirectOutcomes(req) ==
  { Failure, QuietRedirect(req),
    Response(200, PlainText, UrlTokens(MALICIOUS_REDIRECT_TARGET) \o << "/" >>, << >>),
    Response(200, PlainText,
             << "https", "://", "malicious-example.com", ":", "443", "/" >>, << >>),
    Response(404, PlainText,
             << "http", "://", "example.com", "/", "login", "?", "next", "=",
                Quote(MALICIOUS_REDIRECT_TARGET) >>, << >>) }

(***************************************************************************)
(* scanners/xss_scanner.py                                                 *)
(***************************************************************************)
\* a reset that leaves the accumulator as it is
reset_keep(vulns) == vulns

\* BaseScanner.reset: the accumulator is rebound to an empty list
reset(vulns) == << >>

\* the list object self.vulnerabilities is bound to: the one after those it
\* was bound to before
Accumulator(objects) == Len(objects) + 1

\* a reset by "self.vulnerabilities.clear()": the attribute stays bound to
\* the list object it had, which is emptied in place
Rebound_clear(objects, vulns) == objects

\* BaseScanner.reset, "self.vulnerabilities = []": the attribute is bound
\* to a new list object, and the object it was bound to stays as it was
Rebound(objects, vulns) == Append(objects, vulns)

XSSFinding(payload, param, response) ==
  [ type |-> "XSS (Reflected)",
    payload |-> payload,
    parameter |-> param,
    url |-> response.url,
    status_code |-> response.status_code,
    description |-> [ text |-> "Unescaped XSS payload reflected in response" ] ]

\* a reflection test that accepts any script-like fragment in the body
Reflected_any(payload, response) == response.text.frags # {}

\* the reflection test of one trial
Reflected(payload, response) == Contains(response.text, payload)

\* a check that reports a parameter once: it emits nothing when the
\* accumulator already holds a Finding for the parameter
XSSCheck_once(vulns, payload, param, response) ==
  IF Reflected(payload, response) /\ \A n \in 1..Len(vulns) : vulns[n].parameter # param
    THEN Append(vulns, XSSFinding(payload, param, response))
    ELSE vulns

\* body of the try block once the request has been answered
XSSCheck(vulns, payload, param, response) ==
  IF Reflected(payload, response)
    THEN Append(vulns, XSSFinding(payload, param, response))
    ELSE vulns

\* "except requests.exceptions.RequestException: continue"
XSSExcept(vulns) == vulns

(***************************************************************************)
(* scanners/sqli_scanner.py                                                *)
(***************************************************************************)
ErrorFinding(payload, param, response, error_pattern) ==
  [ type |-> "SQL Injection (Error-Based)",
    payload |-> payload,
    parameter |-> param,
    url |-> response.url,
    status_code |-> response.status_code,
    description |-> [ text |-> "SQL error detected: ", error_pattern |-> error_pattern ] ]

BooleanFinding(payload, param, response, length_diff) ==
  [ type |-> "SQL Injection (Boolean-Based)",
    payload |-> payload,
    parameter |-> param,
    url |-> response.url,
    status_code |-> response.status_code,
    description |-> [ text |-> "Significant response length change (",
                      length_diff |-> length_diff, unit |-> " bytes)" ] ]

RECURSIVE ErrorLoop_nobreak(_, _, _, _, _)
\* the loop over SQL_ERROR_PATTERNS without its break
ErrorLoop_nobreak(vulns, payload, param, response, k) ==
  IF k > Len(SQL_ERROR_PATTERNS)
    THEN vulns
    ELSE IF Contains(response.text, SQL_ERROR_PATTERNS[k])
      THEN ErrorLoop_nobreak(
             Append(vulns, ErrorFinding(payload, param, response, SQL_ERROR_PATTERNS[k])),
             payload, param, response, k + 1)
      ELSE ErrorLoop_nobreak(vulns, payload, param, response, k + 1)

RECURSIVE ErrorLoop(_, _, _, _, _)
\* the loop over SQL_ERROR_PATTERNS from index k on; it breaks at a match
ErrorLoop(vulns, payload, param, response, k) ==
  IF k > Len(SQL_ERROR_PATTERNS)
    THEN vulns
    ELSE IF Contains(response.text, SQL_ERROR_PATTERNS[k])
      THEN Append(vulns, ErrorFinding(payload, param, response, SQL_ERROR_PATTERNS[k]))
      ELSE ErrorLoop(vulns, payload, param, response, k + 1)

\* the error-based check of a trial whose injected request was answered
ErrorCheck(vulns, payload, param, response) ==
  ErrorLoop(vulns, payload, param, response, 1)

\* length_diff without abs()
LengthDiff_signed(response, original_response) ==
  TextLen(response.text) - TextLen(original_response.text)

\* length_diff of a trial
LengthDiff(response, original_response) ==
  Abs(TextLen(response.text) - TextLen(original_response.text))

\* a boolean-based check that is left out when the error-based check of the
\* same trial has just emitted its Finding
BooleanCheck_unless_error(vulns, payload, param, response, original_response) ==
  IF /\ vulns # << >>
     /\ vulns[Len(vulns)].type = "SQL Injection (Error-Based)"
     /\ vulns[Len(vulns)].payload = payload
     /\ vulns[Len(vulns)].parameter = param
    THEN vulns
    ELSE IF LengthDiff(response, original_response) > RESPONSE_LENGTH_THRESHOLD
      THEN Append(vulns, BooleanFinding(payload, param, response,
                                        LengthDiff(response, original_response)))
      ELSE vulns

\* the boolean-based check of a trial whose baseline request was answered
BooleanCheck(vulns, payload, param, response, original_response) ==
  IF LengthDiff(response, original_response) > RESPONSE_LENGTH_THRESHOLD
    THEN Append(vulns, BooleanFinding(payload, param, response,
                                      LengthDiff(response, original_response)))
    ELSE vulns

\* a handler of the payload request's failure that gives up what was collected
SQLiProbeExcept_drop(vulns) == << >>

\* outer "except requests.exceptions.RequestException: continue"
SQLiProbeExcept(vulns) == vulns

\* a handler of the baseline failure that gives up what was collected
SQLiBaselineExcept_drop(vulns) == << >>

\* inner "except requests.exceptions.RequestException: pass"
SQLiBaselineExcept(vulns) == vulns

(***************************************************************************)
(* scanners/http_scanner.py                                                *)
(***************************************************************************)
MissingHeaderFinding(header, target, response) ==
  [ type |-> "HTTP Misconfiguration",
    issue |-> "Missing Security Header",
    details |-> [ text |-> "Header '", name |-> header,
                  tail |-> "' is missing (critical for security hardening)" ],
    url |-> target,
    status_code |-> response.status_code ]

InsecureMethodFinding(method, target, options_response) ==
  [ type |-> "HTTP Misconfiguration",
    issue |-> "Insecure HTTP Method Enabled",
    details |-> [ text |-> "Method '", name |-> method,
                  tail |-> "' is allowed (can be used for cross-site tracing attacks)" ],
    url |-> target,
    status_code |-> options_response.status_code ]

\* response_headers: the keys of the answer, lower-cased
response_headers(response) ==
  { lower(response.headers[i][1]) : i \in 1..Len(response.headers) }

\* the test on one required header without lower-casing either side
HeaderMissing_exact(header, response) ==
  header \notin { response.headers[i][1] : i \in 1..Len(response.headers) }

\* the test on one required header
HeaderMissing(header, response) == lower(header) \notin response_headers(response)

\* the loop over REQUIRED_SECURITY_HEADERS
HeaderCheck(vulns, target, response) ==
  LET F[i \in 0..Len(REQUIRED_SECURITY_HEADERS)] ==
        IF i = 0 THEN vulns
        ELSE IF HeaderMissing(REQUIRED_SECURITY_HEADERS[i], response)
          THEN Append(F[i - 1], MissingHeaderFinding(REQUIRED_SECURITY_HEADERS[i], target, response))
          ELSE F[i - 1]
  IN  F[Len(REQUIRED_SECURITY_HEADERS)]

\* allowed_methods split on "," alone
allowed_methods_comma(options_response) ==
  Split(HeaderGet(options_response.headers, "Allow", << >>), << "," >>)

\* allowed_methods: the Allow header ("" when absent) split on ", "
allowed_methods(options_response) ==
  Split(HeaderGet(options_response.headers, "Allow", << >>), << ",", " " >>)

\* the loop over FORBIDDEN_HTTP_METHODS
MethodCheck(vulns, target, options_response) ==
  LET F[i \in 0..Len(FORBIDDEN_HTTP_METHODS)] ==
        IF i = 0 THEN vulns
        ELSE IF << FORBIDDEN_HTTP_METHODS[i] >> \in Range(allowed_methods(options_response))
          THEN Append(F[i - 1], InsecureMethodFinding(FORBIDDEN_HTTP_METHODS[i], target, options_response))
          ELSE F[i - 1]
  IN  F[Len(FORBIDDEN_HTTP_METHODS)]

\* outer "except requests.exceptions.RequestException: pass"
HTTPGetExcept(vulns) == vulns

\* a handler of the OPTIONS failure that gives up the header Findings
HTTPOptionsExcept_drop(vulns) == << >>

\* inner "except requests.exceptions.RequestException: pass"
HTTPOptionsExcept(vulns) == vulns

(***************************************************************************)
(* scanners/redirect_scanner.py                                            *)
(***************************************************************************)
RedirectFinding(param, test_url, response) ==
  [ type |-> "Open Redirect",
    parameter |-> param,
    url |-> test_url,
    redirected_to |-> response.url,
    status_code |-> response.status_code,
    description |-> [ text |-> "Unvalidated redirect parameter allows navigation to malicious domain" ] ]

\* test_url of one redirect parameter name
TestUrl(target, param) ==
  get_base_url(target) \o << "?" >> \o urlencode(<< << param, MALICIOUS_REDIRECT_TARGET >> >>)

\* a comparison that looks for the malicious host anywhere in the final URL
RedirectedToMalicious_contains(response) ==
  \E i \in 1..Len(response.url) :
    << response.url[i] >> = UrlNetloc(UrlTokens(MALICIOUS_REDIRECT_TARGET))

\* the comparison of the final network location with the malicious one
RedirectedToMalicious(response) ==
  UrlNetloc(response.url) = UrlNetloc(UrlTokens(MALICIOUS_REDIRECT_TARGET))

\* body of the try block once the request has been answered
RedirectCheck(vulns, param, test_url, response) ==
  IF RedirectedToMalicious(response)
    THEN Append(vulns, RedirectFinding(param, test_url, response))
    ELSE vulns

\* "except requests.exceptions.RequestException: continue"
RedirectExcept(vulns) == vulns

(***************************************************************************)
(* State                                                                   *)
(***************************************************************************)
VARIABLES
  scan_type,        \* the class of the scanner instance: "xss", "sqli", "http", "redirect"
  vulnerabilities,  \* self.vulnerabilities
  pc,               \* position of the running scan(): "idle" between calls
  target_url,       \* argument of the running (or last) call
  params,           \* its params dictionary
  pi,               \* position of the outer loop (payload or redirect name)
  pj,               \* position of the inner loop (parameter)
  log,              \* the requests of the running (or last) call and their answers
  own,              \* the Findings appended since the running (or last) call began
  results,          \* the lists returned by the completed calls, in order
  refs,             \* the list objects the completed calls returned, in order
  heap,             \* the list objects self.vulnerabilities was bound to before
  callsLeft,        \* calls the run may still make
  eventsLeft,       \* answers other than the quiet one the run may still get
  main_pc,          \* position of main(): "none" when scan() is called directly
  args,             \* the parsed command line: url and scan_type
  scanners,         \* main's list of scanner instances, by scan type
  si,               \* position of "for scanner in scanners"
  all_vulnerabilities,   \* main's aggregated list
  scan_types_performed,  \* main's list of the scanners that returned
  failed,           \* the scanners main reported as failed, in order
  reports,          \* the Finding lists of the reports written
  exit_code,        \* the status the process exited with, -1 while it runs
  exit_message      \* the last message printed before the exit

mainvars ==
  << main_pc, args, scanners, si, all_vulnerabilities, scan_types_performed,
     failed, reports, exit_code, exit_message >>

vars ==
  << scan_type, vulnerabilities, pc, target_url, params, pi, pj, log, own,
     results, refs, heap, callsLeft, eventsLeft, main_pc, args, scanners, si,
     all_vulnerabilities, scan_types_performed, failed, reports, exit_code,
     exit_message >>

ScanTypes == { "xss", "sqli", "http", "redirect" }

\* after construction: BaseScanner.__init__
Constructed ==
  /\ scan_type \in ScanTypes
  /\ vulnerabilities = << >>
  /\ pc = "idle"
  /\ target_url = << >>
  /\ params = << >>
  /\ pi = 0
  /\ pj = 0
  /\ log = << >>
  /\ own = << >>
  /\ results = << >>
  /\ refs = << >>
  /\ heap = << >>

\* main() is not running: scan() is called on the instance directly
NoMain ==
  /\ main_pc = "none"
  /\ args = [ url |-> << >>, scan_type |-> "" ]
  /\ scanners = << >>
  /\ si = 0
  /\ all_vulnerabilities = << >>
  /\ scan_types_performed = << >>
  /\ failed = << >>
  /\ reports = << >>
  /\ exit_code = -1
  /\ exit_message = ""

\* a run of one scan() call on a fresh instance
Init ==
  /\ Constructed
  /\ NoMain
  /\ callsLeft = 1
  /\ eventsLeft = MaxEvents

\* a run of two successive scan() calls on one instance: an earlier and a
\* later call
InitCalls ==
  /\ Constructed
  /\ NoMain
  /\ callsLeft = 2
  /\ eventsLeft = MaxCallEvents

\* what a step appended to the accumulator
Emitted(before, after) ==
  IF Len(after) > Len(before) THEN SubSeq(after, Len(before) + 1, Len(after)) ELSE << >>

Exchange(role, payload, param, req, outcome, quiet) ==
  [ role |-> role, payload |-> payload, param |-> param, request |-> req,
    outcome |-> outcome, event |-> outcome # quiet ]

\* the next request of the call is within MaxSpread requests of the call's
\* first answer that was not the quiet one
InSpread ==
  \A i \in 1..Len(log) : log[i].event => Len(log) + 1 - i < MaxSpread

\* the answer is the quiet one or is paid from the run's budget
Spend(outcome, quiet) ==
  /\ outcome = quiet \/ (eventsLeft > 0 /\ InSpread)
  /\ eventsLeft' = IF outcome = quiet THEN eventsLeft ELSE eventsLeft - 1

\* "return self.vulnerabilities"
Return(vulns) ==
  /\ pc' = "idle"
  /\ pi' = 0
  /\ pj' = 0
  /\ results' = Append(results, vulns)
  /\ refs' = Append(refs, Accumulator(heap'))

\* entry of scan(): reset, then parameter extraction and the gate
Enter(target) ==
  /\ pc = "idle"
  /\ callsLeft > 0
  /\ callsLeft' = callsLeft - 1
  /\ target_url' = target
  /\ vulnerabilities' = reset(vulnerabilities)
  /\ heap' = Rebound(heap, vulnerabilities)
  /\ log' = << >>
  /\ own' = << >>
  /\ main_pc = "scan" => target = args.url
  /\ UNCHANGED << scan_type, eventsLeft >>
  /\ UNCHANGED mainvars

\* loops that try a trial again, once, when its last request failed
NextTrial_retry(loop, npayloads, vulns) ==
  IF /\ ~ log'[Len(log')].outcome.ok
     /\ \A i \in 1..Len(log) :
          log[i].payload # log'[Len(log')].payload \/ log[i].param # log'[Len(log')].param
          \/ log[i].outcome.ok
    THEN /\ pc' = loop
         /\ UNCHANGED << pi, pj, results, refs >>
    ELSE IF pj < Len(params)
      THEN /\ pj' = pj + 1
           /\ pc' = loop
           /\ UNCHANGED << pi, results, refs >>
      ELSE IF pi < npayloads
        THEN /\ pi' = pi + 1
             /\ pj' = 1
             /\ pc' = loop
             /\ UNCHANGED << results, refs >>
        ELSE Return(vulns)

\* the next position of "for payload ...: for param in params:", or the
\* return after the last trial
NextTrial(loop, npayloads, vulns) ==
  IF pj < Len(params)
    THEN /\ pj' = pj + 1
         /\ pc' = loop
         /\ UNCHANGED << pi, results, refs >>
    ELSE IF pi < npayloads
      THEN /\ pi' = pi + 1
           /\ pj' = 1
           /\ pc' = loop
           /\ UNCHANGED << results, refs >>
      ELSE Return(vulns)

(***************************************************************************)
(* XSSScanner.scan                                                         *)
(***************************************************************************)
XSSScan ==
  /\ scan_type = "xss"
  /\ \E target \in Targets :
       /\ Enter(target)
       /\ params' = extract_params(target)
       /\ IF params' = << >>
            THEN Return(vulnerabilities')
            ELSE /\ pc' = "xss"
                 /\ pi' = 1
                 /\ pj' = 1
                 /\ UNCHANGED << results, refs >>

XSSTrial ==
  /\ pc = "xss"
  /\ UNCHANGED heap
  /\ LET payload == XSS_PAYLOADS[pi]
         param == DictKeys(params)[pj]
         modified_params == DictSet(params, param, payload)
         req == Request("GET", get_base_url(target_url), modified_params, FALSE)
     IN  \E outcome \in XSSOutcomes(req, payload) :
           /\ Spend(outcome, QuietResponse(req))
           /\ params' = KeptParams(params, modified_params)
           /\ vulnerabilities' =
                IF outcome.ok THEN XSSCheck(vulnerabilities, payload, param, outcome)
                ELSE XSSExcept(vulnerabilities)
           /\ log' = Append(log, Exchange("probe", payload, param, req, outcome, QuietResponse(req)))
           /\ own' = own \o Emitted(vulnerabilities, vulnerabilities')
           /\ NextTrial("xss", Len(XSS_PAYLOADS), vulnerabilities')
  /\ UNCHANGED << scan_type, target_url, callsLeft >>
  /\ UNCHANGED mainvars

(***************************************************************************)
(* SQLiScanner.scan                                                        *)
(***************************************************************************)
SQLiScan ==
  /\ scan_type = "sqli"
  /\ \E target \in Targets :
       /\ Enter(target)
       /\ params' = extract_params(target)
       /\ IF params' = << >>
            THEN Return(vulnerabilities')
            ELSE /\ pc' = "sqli"
                 /\ pi' = 1
                 /\ pj' = 1
                 /\ UNCHANGED << results, refs >>

\* the injected request of a trial and the error-based check
SQLiProbe ==
  /\ pc = "sqli"
  /\ UNCHANGED heap
  /\ LET payload == SQLI_PAYLOADS[pi]
         param == DictKeys(params)[pj]
         modified_params == DictSet(params, param, payload)
         req == Request("GET", get_base_url(target_url), modified_params, FALSE)
     IN  \E outcome \in SQLiOutcomes(req) :
           /\ Spend(outcome, QuietResponse(req))
           /\ params' = KeptParams(params, modified_params)
           /\ log' = Append(log, Exchange("probe", payload, param, req, outcome, QuietResponse(req)))
           /\ IF outcome.ok
                THEN /\ vulnerabilities' = ErrorCheck(vulnerabilities, payload, param, outcome)
                     /\ pc' = "sqli_baseline"
                     /\ UNCHANGED << pi, pj, results, refs >>
                ELSE /\ vulnerabilities' = SQLiProbeExcept(vulnerabilities)
                     /\ NextTrial("sqli", Len(SQLI_PAYLOADS), vulnerabilities')
           /\ own' = own \o Emitted(vulnerabilities, vulnerabilities')
  /\ UNCHANGED << scan_type, target_url, callsLeft >>
  /\ UNCHANGED mainvars

\* the baseline request of the trial and the boolean-based check
SQLiBaseline ==
  /\ pc = "sqli_baseline"
  /\ UNCHANGED heap
  /\ LET payload == SQLI_PAYLOADS[pi]
         param == DictKeys(params)[pj]
         response == log[Len(log)].outcome
         req == Request("GET", get_base_url(target_url),
                        << << param, DictGet(params, param) >> >>, TRUE)
     IN  \E outcome \in BaselineOutcomes(req) :
           /\ Spend(outcome, QuietResponse(req))
           /\ log' = Append(log, Exchange("baseline", payload, param, req, outcome, QuietResponse(req)))
           /\ vulnerabilities' =
                IF outcome.ok
                  THEN BooleanCheck(vulnerabilities, payload, param, response, outcome)
                  ELSE SQLiBaselineExcept(vulnerabilities)
           /\ own' = own \o Emitted(vulnerabilities, vulnerabilities')
           /\ NextTrial("sqli", Len(SQLI_PAYLOADS), vulnerabilities')
  /\ UNCHANGED << scan_type, target_url, params, callsLeft >>
  /\ UNCHANGED mainvars

(***************************************************************************)
(* HTTPScanner.scan                                                        *)
(***************************************************************************)
HTTPScan ==
  /\ scan_type = "http"
  /\ \E target \in Targets :
       /\ Enter(target)
       /\ pc' = "http_get"
       /\ UNCHANGED << params, pi, pj, results, refs >>

\* the GET and the header check
HTTPGet ==
  /\ pc = "http_get"
  /\ UNCHANGED heap
  /\ LET req == Request("GET", target_url, << >>, TRUE)
     IN  \E outcome \in GetOutcomes(req) :
           /\ Spend(outcome, QuietGet(req))
           /\ log' = Append(log, Exchange("get", "", "", req, outcome, QuietGet(req)))
           /\ IF outcome.ok
                THEN /\ vulnerabilities' = HeaderCheck(vulnerabilities, target_url, outcome)
                     /\ pc' = "http_options"
                     /\ UNCHANGED << pi, pj, results, refs >>
                ELSE /\ vulnerabilities' = HTTPGetExcept(vulnerabilities)
                     /\ Return(vulnerabilities')
           /\ own' = own \o Emitted(vulnerabilities, vulnerabilities')
  /\ UNCHANGED << scan_type, target_url, params, callsLeft >>
  /\ UNCHANGED mainvars

\* the OPTIONS request and the method check
HTTPOptions ==
  /\ pc = "http_options"
  /\ UNCHANGED heap
  /\ LET req == Request("OPTIONS", target_url, << >>, TRUE)
     IN  \E outcome \in OptionsOutcomes(req) :
           /\ Spend(outcome, QuietOptions(req))
           /\ log' = Append(log, Exchange("options", "", "", req, outcome, QuietOptions(req)))
           /\ vulnerabilities' =
                IF outcome.ok THEN MethodCheck(vulnerabilities, target_url, outcome)
                ELSE HTTPOptionsExcept(vulnerabilities)
           /\ own' = own \o Emitted(vulnerabilities, vulnerabilities')
           /\ Return(vulnerabilities')
  /\ UNCHANGED << scan_type, target_url, params, callsLeft >>
  /\ UNCHANGED mainvars

(***************************************************************************)
(* RedirectScanner.scan                                                    *)
(***************************************************************************)
RedirectScan ==
  /\ scan_type = "redirect"
  /\ \E target \in Targets :
       /\ Enter(target)
       /\ pc' = "redirect"
       /\ pi' = 1
       /\ UNCHANGED << params, pj, results, refs >>

RedirectTrial ==
  /\ pc = "redirect"
  /\ UNCHANGED heap
  /\ LET param == REDIRECT_PARAMS[pi]
         test_url == TestUrl(target_url, param)
         req == Request("GET", test_url, << >>, TRUE)
     IN  \E outcome \in RedirectOutcomes(req) :
           /\ Spend(outcome, QuietRedirect(req))
           /\ log' = Append(log, Exchange("probe", MALICIOUS_REDIRECT_TARGET, param, req, outcome,
                                           QuietRedirect(req)))
           /\ vulnerabilities' =
                IF outcome.ok THEN RedirectCheck(vulnerabilities, param, test_url, outcome)
                ELSE RedirectExcept(vulnerabilities)
           /\ own' = own \o Emitted(vulnerabilities, vulnerabilities')
           /\ IF pi < Len(REDIRECT_PARAMS)
                THEN /\ pi' = pi + 1
                     /\ UNCHANGED << pc, pj, results, refs >>
                ELSE Return(vulnerabilities')
  /\ UNCHANGED << scan_type, target_url, params, callsLeft >>
  /\ UNCHANGED mainvars

Next ==
  \/ XSSScan
  \/ XSSTrial
  \/ SQLiScan
  \/ SQLiProbe
  \/ SQLiBaseline
  \/ HTTPScan
  \/ HTTPGet
  \/ HTTPOptions
  \/ RedirectScan
  \/ RedirectTrial

Spec == Init /\ [][Next]_vars

SpecCalls == InitCalls /\ [][Next]_vars

(***************************************************************************)
(* main.py: the command line and the orchestrator                          *)
(***************************************************************************)
\* choices of -s/--scan-type
ScanChoices == { "xss", "sqli", "http", "redirect", "all" }

\* scanners/__init__.py: the registry, by scan type, in registration order
AVAILABLE_SCANNERS == << "xss", "sqli", "http", "redirect" >>

\* a check that accepts a URL having a scheme or a host
validate_url_either(url) == UrlScheme(url) # "" \/ UrlNetloc(url) # << >>

\* validate_url: bool(parsed_url.scheme and parsed_url.netloc)
validate_url(url) == UrlScheme(url) # "" /\ UrlNetloc(url) # << >>

\* get_scanner_by_type: the first registered class of that type, or none
get_scanner_by_type(type) ==
  LET hits == SelectSeq(AVAILABLE_SCANNERS, LAMBDA t : t = type)
  IN  IF hits = << >> THEN << >> ELSE << hits[1] >>

\* get_scanners_to_run: the instances to run, by scan type
get_scanners_to_run(type) ==
  IF type = "all" THEN AVAILABLE_SCANNERS ELSE get_scanner_by_type(type)

\* command lines: targets with and without scheme and host, the scan types
\* of the help text and one that is not among them
MainTargets ==
  { << "http", "://", "example.com" >>,
    << "http", "://", "example.com", "?", "name", "=", "test" >>,
    << "example.com" >>,
    << "example.com", "/", "search", "?", "q", "=", "1" >>,
    << "http", "://" >>,
    << "http", "://", "?", "name", "=", "test" >> }

MainScanTypes == ScanChoices \cup { "ftp" }

\* a run of the program from its command line
InitMain ==
  /\ scan_type = "none"
  /\ vulnerabilities = << >>
  /\ pc = "idle"
  /\ target_url = << >>
  /\ params = << >>
  /\ pi = 0
  /\ pj = 0
  /\ log = << >>
  /\ own = << >>
  /\ results = << >>
  /\ refs = << >>
  /\ heap = << >>
  /\ callsLeft = 0
  /\ eventsLeft = MaxMainEvents
  /\ main_pc = "start"
  /\ args \in [ url : MainTargets, scan_type : MainScanTypes ]
  /\ scanners = << >>
  /\ si = 0
  /\ all_vulnerabilities = << >>
  /\ scan_types_performed = << >>
  /\ failed = << >>
  /\ reports = << >>
  /\ exit_code = -1
  /\ exit_message = ""

\* the last message, then sys.exit(code)
Exit(code, message) ==
  /\ main_pc' = "exited"
  /\ exit_code' = code
  /\ exit_message' = message

\* main() up to the scanner loop: parse_arguments, validate_url,
\* get_scanners_to_run
MainStart ==
  /\ main_pc = "start"
  /\ IF args.scan_type \notin ScanChoices
       THEN /\ Exit(2, "argument -s/--scan-type: invalid choice")
            /\ UNCHANGED << scanners, si >>
       ELSE IF ~ validate_url(args.url)
         THEN /\ Exit(1, "Invalid URL format")
              /\ UNCHANGED << scanners, si >>
         ELSE /\ scanners' = get_scanners_to_run(args.scan_type)
              /\ IF scanners' = << >>
                   THEN /\ Exit(1, "No scanner found for type")
                        /\ UNCHANGED si
                   ELSE /\ main_pc' = "loop"
                        /\ si' = 1
                        /\ UNCHANGED << exit_code, exit_message >>
  /\ UNCHANGED << args, all_vulnerabilities, scan_types_performed, failed, reports >>
  /\ UNCHANGED << scan_type, vulnerabilities, pc, target_url, params, pi, pj, log, own,
                  results, refs, heap, callsLeft, eventsLeft >>

\* "for scanner in scanners": the next instance, about to be scanned
MainCall ==
  /\ main_pc = "loop"
  /\ si <= Len(scanners)
  /\ main_pc' = "scan"
  /\ scan_type' = scanners[si]
  /\ vulnerabilities' = << >>
  /\ callsLeft' = 1
  /\ heap' = Append(heap, vulnerabilities)
  /\ UNCHANGED << pc, target_url, params, pi, pj, log, own, results, refs, eventsLeft >>
  /\ UNCHANGED << args, scanners, si, all_vulnerabilities, scan_types_performed, failed,
                  reports, exit_code, exit_message >>

\* scanner.scan returned: extend the aggregated list
MainCollect ==
  /\ main_pc = "scan"
  /\ pc = "idle"
  /\ callsLeft = 0
  /\ all_vulnerabilities' = all_vulnerabilities \o results[Len(results)]
  /\ scan_types_performed' = Append(scan_types_performed, scanners[si])
  /\ si' = si + 1
  /\ main_pc' = "loop"
  /\ UNCHANGED << args, scanners, failed, reports, exit_code, exit_message >>
  /\ UNCHANGED << scan_type, vulnerabilities, pc, target_url, params, pi, pj, log, own,
                  results, refs, heap, callsLeft, eventsLeft >>

\* an except clause that gives up the aggregated list
MainExceptKeep_drop(all) == << >>

\* "except Exception as e": the aggregated list is left as it is
MainExceptKeep(all) == all

\* a request of the running scan raises an error that is not a
\* RequestException: it leaves scan and main reports the scanner as failed
MainExcept ==
  /\ main_pc = "scan"
  /\ pc # "idle"
  /\ eventsLeft > 0
  /\ eventsLeft' = eventsLeft - 1
  /\ pc' = "idle"
  /\ pi' = 0
  /\ pj' = 0
  /\ all_vulnerabilities' = MainExceptKeep(all_vulnerabilities)
  /\ failed' = Append(failed, scanners[si])
  /\ si' = si + 1
  /\ main_pc' = "loop"
  /\ UNCHANGED << args, scanners, scan_types_performed, reports, exit_code,
                  exit_message >>
  /\ UNCHANGED << scan_type, vulnerabilities, target_url, params, log, own, results,
                  refs, heap,
                  callsLeft >>

\* after the loop: the report is written and the process exits; a report
\* file that cannot be written is an unexpected error of main
MainReport ==
  /\ main_pc = "loop"
  /\ si > Len(scanners)
  /\ \E written \in BOOLEAN :
       IF written
         THEN /\ reports' = Append(reports, all_vulnerabilities)
              /\ Exit(IF all_vulnerabilities # << >> THEN 1 ELSE 0, "Scan completed")
         ELSE /\ UNCHANGED reports
              /\ Exit(1, "Unexpected error")
  /\ UNCHANGED << args, scanners, si, all_vulnerabilities, scan_types_performed, failed >>
  /\ UNCHANGED << scan_type, vulnerabilities, pc, target_url, params, pi, pj, log, own,
                  results, refs, heap, callsLeft, eventsLeft >>

\* KeyboardInterrupt, at any point of main(): caught under __main__
MainInterrupt ==
  /\ main_pc \in { "start", "loop", "scan" }
  /\ Exit(130, "Scan interrupted by user")
  /\ pc' = "idle"
  /\ pi' = 0
  /\ pj' = 0
  /\ UNCHANGED << args, scanners, si, all_vulnerabilities, scan_types_performed, failed,
                  reports >>
  /\ UNCHANGED << scan_type, vulnerabilities, target_url, params, log, own, results,
                  refs, heap,
                  callsLeft, eventsLeft >>

NextMain ==
  \/ MainStart
  \/ MainCall
  \/ MainCollect
  \/ MainExcept
  \/ MainReport
  \/ MainInterrupt
  \/ XSSScan
  \/ XSSTrial
  \/ SQLiScan
  \/ SQLiProbe
  \/ SQLiBaseline
  \/ HTTPScan
  \/ HTTPGet
  \/ HTTPOptions
  \/ RedirectScan
  \/ RedirectTrial

SpecMain == InitMain /\ [][NextMain]_vars

(***************************************************************************)
(* BaseScanner.extract_params on its own                                   *)
(***************************************************************************)
\* the names and the values of the queries tried: a value, a blank value
\* ("name="), or none at all (a bare "name")
ExtractNames == { "a", "b" }

ExtractValues == { "1", "2", "", "bare" }

\* the tokens of one name=value field
Field(f) ==
  IF f[2] = "bare" THEN << f[1] >>
  ELSE IF f[2] = "" THEN << f[1], "=" >>
  ELSE << f[1], "=", f[2] >>

RECURSIVE JoinFields(_)
\* the fields joined by "&"
JoinFields(fields) ==
  IF fields = << >> THEN << >>
  ELSE Field(fields[1]) \o (IF Len(fields) > 1 THEN << "&" >> ELSE << >>)
       \o JoinFields(Tail(fields))

\* the URLs given to extract_params: no query string, an empty one, and
\* every query of up to MaxFields fields
ExtractInputs ==
  { << "http", "://", "example.com", "/" >> } \cup
  { << "http", "://", "example.com", "/", "?" >> \o JoinFields(fields) :
      fields \in UNION { [ 1..n -> ExtractNames \X ExtractValues ] : n \in 0..MaxFields } }

\* extract_params is about to be called on a URL
InitExtract ==
  /\ NoMain
  /\ scan_type = "none"
  /\ vulnerabilities = << >>
  /\ pc = "extract"
  /\ target_url \in ExtractInputs
  /\ params = << >>
  /\ pi = 0
  /\ pj = 0
  /\ log = << >>
  /\ own = << >>
  /\ results = << >>
  /\ refs = << >>
  /\ heap = << >>
  /\ callsLeft = 0
  /\ eventsLeft = 0

\* params = self.extract_params(target_url)
ExtractParams ==
  /\ pc = "extract"
  /\ params' = extract_params(target_url)
  /\ pc' = "extracted"
  /\ UNCHANGED << scan_type, vulnerabilities, target_url, pi, pj, log, own, results,
                  refs, heap,
                  callsLeft, eventsLeft >>
  /\ UNCHANGED mainvars

NextExtract == ExtractParams

SpecExtract == InitExtract /\ [][NextExtract]_vars

TypeOK ==
  /\ scan_type \in ScanTypes \cup { "none" }
  /\ pc \in { "idle", "xss", "sqli", "sqli_baseline", "http_get", "http_options", "redirect",
             "extract", "extracted" }
  /\ callsLeft >= 0
  /\ eventsLeft >= 0
  /\ Len(log) <= 2 * Len(SQLI_PAYLOADS) * Len(params) + Len(REDIRECT_PARAMS)

(***************************************************************************)
(* Properties                                                              *)
(***************************************************************************)
\* the list the last completed call returned
LastResult == results[Len(results)]

\* url has no query string: no "?" before its fragment
NoQueryString(url) ==
  ~ \E i \in 1..Len(url) : url[i] = "?" /\ \A k \in 1..(i - 1) : url[k] # "#"

\* the positions of seq whose element satisfies Test
Positions(seq, Test(_)) == { i \in 1..Len(seq) : Test(seq[i]) }

\* C1: for a target URL without a query string, XSSScanner.scan and
\* SQLiScanner.scan return an empty list of Findings and issue no HTTP
\* request.
C1_NoQueryNoFindings ==
  (scan_type \in { "xss", "sqli" } /\ target_url # << >> /\ NoQueryString(target_url))
    => /\ pc = "idle"
       /\ log = << >>
       /\ results # << >>
       /\ LastResult = << >>

\* an XSS scan of http://example.com has returned
C1_Witness ==
  /\ scan_type = "xss"
  /\ pc = "idle"
  /\ target_url = << "http", "://", "example.com" >>
  /\ results = << << >> >>
  /\ log = << >>

\* the XSS Findings for (payload, param) in vulns
XSSFindingsFor(vulns, payload, param) ==
  Positions(vulns, LAMBDA f : f.type = "XSS (Reflected)" /\ f.payload = payload
                              /\ f.parameter = param)

\* the exchange was answered and the body holds the probe's own payload
Reflecting(e) == e.outcome.ok /\ e.payload \in e.outcome.text.frags

\* C2: in XSSScanner.scan every (payload, parameter) trial emits exactly
\* one "XSS (Reflected)" Finding with that payload and parameter when its
\* request succeeded and the body holds the literal payload, and none
\* otherwise; the Findings are as many as the reflecting trials, the trials
\* run over the 5 payloads and every parameter; with only the first payload
\* reflected for http://example.com?name=test the result is one Finding
\* for "name".
C2_XSSFindingIffReflected ==
  scan_type = "xss" =>
    /\ \A i \in 1..Len(log) :
         Cardinality(XSSFindingsFor(vulnerabilities, log[i].payload, log[i].param))
           = IF Reflecting(log[i]) THEN 1 ELSE 0
    /\ Len(vulnerabilities) = Cardinality(Positions(log, Reflecting))
    /\ \A i \in 1..Len(vulnerabilities) : vulnerabilities[i].type = "XSS (Reflected)"
    /\ (pc = "idle" /\ results # << >>) =>
         /\ LastResult = vulnerabilities
         /\ Len(log) = 5 * Len(params)
         /\ \A k \in 1..5, j \in 1..Len(params) :
              /\ log[(k - 1) * Len(params) + j].payload = XSS_PAYLOADS[k]
              /\ log[(k - 1) * Len(params) + j].param = params[j][1]
         /\ (/\ target_url = << "http", "://", "example.com", "?", "name", "=", "test" >>
             /\ Positions(log, Reflecting) = { 1 })
              => /\ Len(LastResult) = 1
                 /\ LastResult[1].parameter = "name"
                 /\ LastResult[1].payload = "<script>alert(1)</script>"

\* the scan of http://example.com?name=test has returned one Finding, for
\* the first payload reflected in parameter "name", after its 5 trials
C2_Witness ==
  /\ scan_type = "xss"
  /\ pc = "idle"
  /\ target_url = << "http", "://", "example.com", "?", "name", "=", "test" >>
  /\ Len(log) = 5
  /\ Positions(log, Reflecting) = { 1 }
  /\ Len(results) = 1
  /\ Len(results[1]) = 1
  /\ results[1][1].parameter = "name"

\* the Error-Based Findings for (payload, param) in vulns
ErrorFindingsFor(vulns, payload, param) ==
  Positions(vulns, LAMBDA f : f.type = "SQL Injection (Error-Based)" /\ f.payload = payload
                              /\ f.parameter = param)

\* the positions of the table's patterns that occur in the body
Matches(text) == { k \in 1..Len(SQL_ERROR_PATTERNS) : SQL_ERROR_PATTERNS[k] \in text.frags }

\* C3: in one SQLiScanner.scan there is at most one "SQL Injection
\* (Error-Based)" Finding per (payload, parameter), and the one of a trial
\* names the first pattern of the 8-entry SQL_ERROR_PATTERNS table, in
\* table order, that occurs in the trial's payload response body.
C3_FirstErrorPatternWins ==
  scan_type = "sqli" =>
    /\ Len(SQL_ERROR_PATTERNS) = 8
    /\ \A k \in 1..Len(SQLI_PAYLOADS), j \in 1..Len(params) :
         Cardinality(ErrorFindingsFor(vulnerabilities, SQLI_PAYLOADS[k], params[j][1])) <= 1
    /\ \A i \in 1..Len(log) :
         log[i].role = "probe" =>
           LET found == ErrorFindingsFor(vulnerabilities, log[i].payload, log[i].param)
               hits == IF log[i].outcome.ok THEN Matches(log[i].outcome.text) ELSE {}
           IN  IF hits = {}
                 THEN found = {}
                 ELSE /\ Cardinality(found) = 1
                      /\ \A n \in found :
                           /\ vulnerabilities[n].description.error_pattern \in
                                { SQL_ERROR_PATTERNS[k] : k \in hits }
                           /\ \A k \in hits :
                                SQL_ERROR_PATTERNS[k] = vulnerabilities[n].description.error_pattern
                                  => \A m \in hits : k <= m

\* a trial whose body holds two patterns of the table (the first and the
\* sixth) has its one Finding, naming the first
C3_Witness ==
  /\ scan_type = "sqli"
  /\ \E i \in 1..Len(log) :
       /\ log[i].role = "probe"
       /\ log[i].outcome.ok
       /\ Matches(log[i].outcome.text) = { 1, 6 }
       /\ \E n \in ErrorFindingsFor(vulnerabilities, log[i].payload, log[i].param) :
            vulnerabilities[n].description.error_pattern = SQL_ERROR_PATTERNS[1]

\* the Boolean-Based Findings for (payload, param) in vulns
BooleanFindingsFor(vulns, payload, param) ==
  Positions(vulns, LAMBDA f : f.type = "SQL Injection (Boolean-Based)" /\ f.payload = payload
                              /\ f.parameter = param)

\* |len(a) - len(b)| of two answered exchanges
Delta(a, b) ==
  IF a.outcome.text.length >= b.outcome.text.length
    THEN a.outcome.text.length - b.outcome.text.length
    ELSE b.outcome.text.length - a.outcome.text.length

\* C4: every "SQL Injection (Boolean-Based)" Finding reports the delta
\* |len(payload body) - len(baseline body)| of its own trial, and that delta
\* is strictly greater than 50; a trial whose two requests succeed with a
\* delta of 50 or less emits no Boolean-Based Finding.
C4_BooleanDelta ==
  scan_type = "sqli" =>
    /\ \A n \in 1..Len(vulnerabilities) :
         vulnerabilities[n].type = "SQL Injection (Boolean-Based)" =>
           /\ vulnerabilities[n].description.length_diff > 50
           /\ \E i \in 2..Len(log) :
                /\ log[i].role = "baseline"
                /\ log[i].outcome.ok
                /\ log[i].payload = vulnerabilities[n].payload
                /\ log[i].param = vulnerabilities[n].parameter
                /\ vulnerabilities[n].description.length_diff = Delta(log[i - 1], log[i])
    /\ \A i \in 2..Len(log) :
         (log[i].role = "baseline" /\ log[i].outcome.ok) =>
           Cardinality(BooleanFindingsFor(vulnerabilities, log[i].payload, log[i].param))
             = IF Delta(log[i - 1], log[i]) > 50 THEN 1 ELSE 0

\* a trial with a delta of exactly 50 has emitted nothing and a trial whose
\* baseline is the longer body has emitted its Finding
C4_Witness ==
  /\ scan_type = "sqli"
  /\ \E i \in 2..Len(log) :
       /\ log[i].role = "baseline"
       /\ log[i].outcome.ok
       /\ Delta(log[i - 1], log[i]) = 50
       /\ BooleanFindingsFor(vulnerabilities, log[i].payload, log[i].param) = {}
  /\ \E i \in 2..Len(log) :
       /\ log[i].role = "baseline"
       /\ log[i].outcome.ok
       /\ log[i].outcome.text.length > log[i - 1].outcome.text.length
       /\ BooleanFindingsFor(vulnerabilities, log[i].payload, log[i].param) # {}

\* the Findings of vulns with the given issue
IssuePositions(vulns, issue) == Positions(vulns, LAMBDA f : f.issue = issue)

\* the Findings of vulns with the given issue that name the header or method
NamedPositions(vulns, issue, name) ==
  Positions(vulns, LAMBDA f : f.issue = issue /\ f.details.name = name)

\* some header name of the response equals name up to letter case
HasHeader(response, name) ==
  \E i \in 1..Len(response.headers) : upper(response.headers[i][1]) = upper(name)

\* the required headers the response carries
PresentHeaders(response) ==
  { k \in 1..Len(REQUIRED_SECURITY_HEADERS) : HasHeader(response, REQUIRED_SECURITY_HEADERS[k]) }

\* C5: in HTTPScanner.scan, once the GET has succeeded, a "Missing Security
\* Header" Finding naming H exists for a required header H if and only if
\* no response header name equals H up to letter case; there are 5 required
\* headers and the Findings are 5 minus the number of them present.
C5_MissingHeaderIffAbsent ==
  (scan_type = "http" /\ log # << >> /\ log[1].outcome.ok) =>
    /\ Len(REQUIRED_SECURITY_HEADERS) = 5
    /\ \A k \in 1..Len(REQUIRED_SECURITY_HEADERS) :
         Cardinality(NamedPositions(vulnerabilities, "Missing Security Header",
                                    REQUIRED_SECURITY_HEADERS[k]))
           = IF k \in PresentHeaders(log[1].outcome) THEN 0 ELSE 1
    /\ Cardinality(IssuePositions(vulnerabilities, "Missing Security Header"))
         = 5 - Cardinality(PresentHeaders(log[1].outcome))

\* the GET answer carries two of the required headers in lower case and the
\* scan holds the three Findings of the others
C5_Witness ==
  /\ scan_type = "http"
  /\ log # << >>
  /\ log[1].outcome.ok
  /\ \E i \in 1..Len(log[1].outcome.headers) :
       log[1].outcome.headers[i][1] = "x-frame-options"
  /\ Cardinality(PresentHeaders(log[1].outcome)) = 2
  /\ Cardinality(IssuePositions(vulnerabilities, "Missing Security Header")) = 3

\* the value of the Allow header of the response, empty when there is none
AllowOf(response) ==
  IF HasHeader(response, "Allow")
    THEN response.headers[CHOOSE i \in 1..Len(response.headers) :
                            upper(response.headers[i][1]) = "ALLOW"][2]
    ELSE << >>

\* C6: in HTTPScanner.scan, when the GET and the OPTIONS request both
\* succeed, an "Insecure HTTP Method Enabled" Finding exists for a method M
\* of TRACE, TRACK if and only if M is an element of the Allow header value
\* split on ", "; "GET, POST, TRACE" gives exactly one, for TRACE, and an
\* absent Allow header gives none.
C6_InsecureMethodIffListed ==
  (scan_type = "http" /\ Len(log) = 2 /\ log[1].outcome.ok /\ log[2].outcome.ok) =>
    LET allow == AllowOf(log[2].outcome)
        insecure == IssuePositions(vulnerabilities, "Insecure HTTP Method Enabled")
    IN  /\ FORBIDDEN_HTTP_METHODS = << "TRACE", "TRACK" >>
        /\ \A m \in 1..Len(FORBIDDEN_HTTP_METHODS) :
             Cardinality(NamedPositions(vulnerabilities, "Insecure HTTP Method Enabled",
                                        FORBIDDEN_HTTP_METHODS[m]))
               = IF << FORBIDDEN_HTTP_METHODS[m] >> \in Range(Split(allow, << ",", " " >>))
                   THEN 1 ELSE 0
        /\ \A n \in insecure : vulnerabilities[n].details.name \in Range(FORBIDDEN_HTTP_METHODS)
        /\ allow = << "GET", ",", " ", "POST", ",", " ", "TRACE" >> =>
             /\ Cardinality(insecure) = 1
             /\ \A n \in insecure : vulnerabilities[n].details.name = "TRACE"
        /\ ~ HasHeader(log[2].outcome, "Allow") => insecure = {}

\* the OPTIONS answer is "Allow: GET, POST, TRACE" and the scan has returned
\* the one Finding for TRACE
C6_Witness ==
  /\ scan_type = "http"
  /\ pc = "idle"
  /\ Len(log) = 2
  /\ log[2].outcome.ok
  /\ AllowOf(log[2].outcome) = << "GET", ",", " ", "POST", ",", " ", "TRACE" >>
  /\ Cardinality(IssuePositions(LastResult, "Insecure HTTP Method Enabled")) = 1

\* the network location of url is exactly malicious-example.com
AtMaliciousHost(url) ==
  /\ Len(url) >= 3
  /\ url[2] = "://"
  /\ url[3] = "malicious-example.com"
  /\ Len(url) > 3 => url[4] \in { "/", "?", "#" }

\* the Open Redirect Findings for param in vulns
RedirectFindingsFor(vulns, param) ==
  Positions(vulns, LAMBDA f : f.type = "Open Redirect" /\ f.parameter = param)

\* C7: in RedirectScanner.scan each of the 7 redirect parameter names gets
\* exactly one "Open Redirect" Finding if and only if its request succeeded
\* and the network location of the final response URL equals that of the
\* malicious target, malicious-example.com; every Finding's final URL has
\* that network location and at most 7 Findings are returned.
C7_RedirectIffMaliciousNetloc ==
  scan_type = "redirect" =>
    /\ Len(REDIRECT_PARAMS) = 7
    /\ \A i \in 1..Len(log) :
         /\ log[i].param = REDIRECT_PARAMS[i]
         /\ Cardinality(RedirectFindingsFor(vulnerabilities, log[i].param))
              = IF log[i].outcome.ok /\ AtMaliciousHost(log[i].outcome.url) THEN 1 ELSE 0
    /\ \A n \in 1..Len(vulnerabilities) :
         /\ vulnerabilities[n].type = "Open Redirect"
         /\ AtMaliciousHost(vulnerabilities[n].redirected_to)
    /\ Len(vulnerabilities)
         = Cardinality(Positions(log, LAMBDA e : e.outcome.ok /\ AtMaliciousHost(e.outcome.url)))
    /\ Len(vulnerabilities) <= 7
    /\ (pc = "idle" /\ results # << >>) => (Len(log) = 7 /\ LastResult = vulnerabilities)

\* a probe that ended on the malicious site has its Finding and a probe that
\* ended on the malicious host with an explicit port has none
C7_Witness ==
  /\ scan_type = "redirect"
  /\ \E i \in 1..Len(log) :
       /\ log[i].outcome.ok
       /\ AtMaliciousHost(log[i].outcome.url)
       /\ RedirectFindingsFor(vulnerabilities, log[i].param) # {}
  /\ \E i \in 1..Len(log) :
       /\ log[i].outcome.ok
       /\ log[i].outcome.url = << "https", "://", "malicious-example.com", ":", "443", "/" >>
       /\ RedirectFindingsFor(vulnerabilities, log[i].param) = {}

\* C8: on one scanner instance the list a scan call returns holds only the
\* Findings of that call's own trials, none of an earlier call, also when
\* the later call returns early or its requests fail.
C8_NoCrossCallLeak ==
  /\ vulnerabilities = own
  /\ (pc = "idle" /\ results # << >>) =>
       /\ LastResult = own
       /\ \A n \in 1..Len(LastResult) :
            \E i \in 1..Len(log) :
              /\ log[i].outcome.ok
              /\ LastResult[n].status_code = log[i].outcome.status_code
              /\ LastResult[n].url \in { log[i].request.url, log[i].outcome.url }

\* after a call that returned Findings, a call on a URL without parameters
\* has returned early with an empty list
C8_Witness ==
  /\ scan_type = "xss"
  /\ pc = "idle"
  /\ Len(results) = 2
  /\ results[1] # << >>
  /\ NoQueryString(target_url)
  /\ log = << >>
  /\ results[2] = << >>

\* C9: in HTTPScanner.scan a failed GET gives an empty result and no
\* OPTIONS request; a GET that succeeds followed by a failed OPTIONS request
\* gives exactly the missing-header Findings of the GET response and no
\* insecure-method Finding.
C9_HTTPFailures ==
  scan_type = "http" =>
    /\ pc = "http_options" => (Len(log) = 1 /\ log[1].outcome.ok)
    /\ (pc = "idle" /\ results # << >>) =>
         /\ ~ log[1].outcome.ok => (LastResult = << >> /\ Len(log) = 1)
         /\ log[1].outcome.ok => Len(log) = 2
         /\ (log[1].outcome.ok /\ ~ log[2].outcome.ok) =>
              /\ IssuePositions(LastResult, "Missing Security Header") = 1..Len(LastResult)
              /\ \A k \in 1..Len(REQUIRED_SECURITY_HEADERS) :
                   Cardinality(NamedPositions(LastResult, "Missing Security Header",
                                              REQUIRED_SECURITY_HEADERS[k]))
                     = IF k \in PresentHeaders(log[1].outcome) THEN 0 ELSE 1

\* the GET answer lacked required headers, the OPTIONS request failed and
\* the scan has returned the header Findings
C9_Witness ==
  /\ scan_type = "http"
  /\ pc = "idle"
  /\ Len(log) = 2
  /\ log[1].outcome.ok
  /\ ~ log[2].outcome.ok
  /\ Len(LastResult) = 4
  /\ Cardinality(PresentHeaders(log[1].outcome)) = 1

\* the Findings of vulns that belong to the trial of exchange e
TrialFindings(vulns, e) ==
  Positions(vulns, LAMBDA f : f.parameter = e.param
                              /\ (f.type = "Open Redirect" \/ f.payload = e.payload))

\* what the answered exchange log[i] makes its check emit
EmissionOf(i) ==
  LET e == log[i]
  IN  CASE scan_type = "xss" -> XSSCheck(<< >>, e.payload, e.param, e.outcome)
        [] scan_type = "redirect" -> RedirectCheck(<< >>, e.param, e.request.url, e.outcome)
        [] scan_type = "sqli" /\ e.role = "probe" ->
             ErrorCheck(<< >>, e.payload, e.param, e.outcome)
        [] scan_type = "sqli" /\ e.role = "baseline" ->
             BooleanCheck(<< >>, e.payload, e.param, log[i - 1].outcome, e.outcome)
        [] OTHER -> << >>

\* the emissions of the exchanges of the log in order, with Skipped(i)
\* telling which exchanges contribute nothing
Emissions(Skipped(_)) ==
  LET F[n \in 0..Len(log)] ==
        IF n = 0
          THEN << >>
          ELSE F[n - 1] \o (IF Skipped(n) THEN << >> ELSE EmissionOf(n))
  IN  F[Len(log)]

\* some request of the trial of exchange log[i] failed
TrialFailed(i) ==
  \E k \in 1..Len(log) :
    /\ log[k].payload = log[i].payload
    /\ log[k].param = log[i].param
    /\ ~ log[k].outcome.ok

\* every trial of the scan has run: the probes are the payloads times the
\* parameters, or the 7 redirect names
AllTrialsRan ==
  Cardinality(Positions(log, LAMBDA e : e.role = "probe"))
    = CASE scan_type = "xss" -> Len(XSS_PAYLOADS) * Len(params)
        [] scan_type = "sqli" -> Len(SQLI_PAYLOADS) * Len(params)
        [] OTHER -> Len(REDIRECT_PARAMS)

\* C10 as stated: in the XSS, SQLi and Open-Redirect strategies a trial with
\* a request that failed has no Finding, and the scan returns, after all
\* its trials, exactly the Findings of the trials none of whose requests
\* failed.
C10_AsStated ==
  scan_type \in { "xss", "sqli", "redirect" } =>
    /\ \A i \in 1..Len(log) :
         ~ log[i].outcome.ok => TrialFindings(vulnerabilities, log[i]) = {}
    /\ (pc = "idle" /\ results # << >>) =>
         /\ AllTrialsRan
         /\ LastResult = Emissions(TrialFailed)

\* C10, amended: in the XSS and Open-Redirect strategies, and for the
\* injected request of the SQLi strategy, a transport failure of a trial's
\* request leaves the trial without any Finding; a failure of the SQLi
\* baseline request leaves the trial without a Boolean-Based Finding and
\* keeps the Error-Based Finding of its injected request.  A failure
\* discards nothing collected before and stops no later trial: the
\* accumulator always holds, in order, the Findings of the checks whose own
\* request was answered, and the scan returns it after all trials have run.
C10_FailureSkipsOnlyItsCheck ==
  scan_type \in { "xss", "sqli", "redirect" } =>
    /\ \A i \in 1..Len(log) :
         ~ log[i].outcome.ok =>
           IF log[i].role = "baseline"
             THEN BooleanFindingsFor(vulnerabilities, log[i].payload, log[i].param) = {}
             ELSE TrialFindings(vulnerabilities, log[i]) = {}
    /\ vulnerabilities = Emissions(LAMBDA i : ~ log[i].outcome.ok)
    /\ (pc = "idle" /\ results # << >>) =>
         /\ AllTrialsRan
         /\ LastResult = vulnerabilities

\* an SQLi scan has returned, after all its trials, the Error-Based Finding
\* of a trial whose baseline request failed, and the trials after the failed
\* request were still made
C10_Witness ==
  /\ scan_type = "sqli"
  /\ pc = "idle"
  /\ AllTrialsRan
  /\ \E i \in 1..Len(log) :
       /\ log[i].role = "baseline"
       /\ ~ log[i].outcome.ok
       /\ ErrorFindingsFor(LastResult, log[i].payload, log[i].param) # {}
       /\ BooleanFindingsFor(LastResult, log[i].payload, log[i].param) = {}
       /\ i < Len(log)

(***************************************************************************)
(* The orchestrator                                                        *)
(***************************************************************************)
\* the target of the command line lacks a scheme or a host
LacksSchemeOrHost(url) ==
  \/ Len(url) < 3
  \/ url[2] # "://"
  \/ url[3] \in { "/", "?", "#" }

\* no registered scanner has the scan type selected on the command line
NoScannerSelected == args.scan_type \notin Range(AVAILABLE_SCANNERS) \cup { "all" }

\* C11 as stated: a finished run exits with 0 when it completed
\* with an empty aggregated list, with 1 when it completed with a Finding
\* or when startup failed (target without scheme or host, or no scanner for
\* the selected scan type), and with 130 when it was interrupted
C11_AsStated ==
  main_pc = "exited" =>
    /\ exit_message = "Scan interrupted by user" => exit_code = 130
    /\ exit_message = "Scan completed" =>
         exit_code = (IF all_vulnerabilities = << >> THEN 0 ELSE 1)
    /\ ( /\ exit_message # "Scan interrupted by user"
         /\ LacksSchemeOrHost(args.url) \/ NoScannerSelected ) => exit_code = 1

\* the part of C11 that the program keeps: the exit codes of completed and
\* interrupted runs, and of a run whose scan type is one of the choices and
\* whose target lacks a scheme or a host
C11_ExitCodesOfParsedRuns ==
  main_pc = "exited" =>
    /\ exit_message = "Scan interrupted by user" => exit_code = 130
    /\ exit_message = "Scan completed" =>
         exit_code = (IF all_vulnerabilities = << >> THEN 0 ELSE 1)
    /\ ( /\ exit_message # "Scan interrupted by user"
         /\ args.scan_type \in ScanChoices
         /\ LacksSchemeOrHost(args.url) ) => exit_code = 1

\* nothing of a scan has happened: no instance, no call, no request, no
\* result, no report
NothingScanned ==
  /\ scanners = << >>
  /\ scan_type = "none"
  /\ target_url = << >>
  /\ log = << >>
  /\ results = << >>
  /\ refs = << >>
  /\ heap = << >>
  /\ all_vulnerabilities = << >>
  /\ scan_types_performed = << >>
  /\ failed = << >>
  /\ reports = << >>

\* C12: in a run whose target lacks a scheme or a host no scanner is ever
\* instantiated or called, no request is made and no report is written, and
\* when the run has ended its exit code is not 0
C12_InvalidUrlStopsBeforeScanning ==
  LacksSchemeOrHost(args.url) =>
    /\ NothingScanned
    /\ main_pc \in { "start", "exited" }
    /\ main_pc = "exited" => exit_code \in { 1, 2, 130 }

\* a run with a scan type of the choices and a target that has a scheme but
\* no host has ended with code 1 at the URL check
C12_Witness ==
  /\ main_pc = "exited"
  /\ args.scan_type = "all"
  /\ args.url = << "http", "://" >>
  /\ exit_code = 1
  /\ exit_message = "Invalid URL format"
  /\ NothingScanned

\* the lists of a sequence of lists, joined in order
Concat(lists) ==
  LET F[i \in 0..Len(lists)] == IF i = 0 THEN << >> ELSE F[i - 1] \o lists[i]
  IN  F[Len(lists)]

\* the scanners main has been through, in run order, are the first si - 1
\* of its list, each either performed or reported as failed
ThroughInOrder ==
  LET n == Len(scan_types_performed) + Len(failed)
  IN  /\ n = (IF si = 0 THEN 0 ELSE si - 1)
      /\ Range(scan_types_performed) \cap Range(failed) = {}
      /\ Range(scan_types_performed) \cup Range(failed) = { scanners[k] : k \in 1..n }

\* C13: the aggregated list is the concatenation, in run order, of the lists
\* the scans returned; a scan that raised an unexpected error adds nothing
\* and removes nothing, and the scanners after it are still run: when the
\* loop is over every scanner was either performed or reported as failed
C13_FailureIsolatedPerStrategy ==
  exit_message \notin { "Scan interrupted by user" } =>
    /\ all_vulnerabilities =
         Concat(IF main_pc = "scan" /\ pc = "idle" /\ callsLeft = 0
                  THEN SubSeq(results, 1, Len(results) - 1)
                  ELSE results)
    /\ Len(scan_types_performed) =
         (IF main_pc = "scan" /\ pc = "idle" /\ callsLeft = 0
            THEN Len(results) - 1 ELSE Len(results))
    /\ ThroughInOrder
    /\ exit_message \in { "Scan completed", "Unexpected error" } =>
         Len(scan_types_performed) + Len(failed) = Len(scanners)

\* a run of all four scanners has completed in which the last scanner
\* raised an unexpected error after its own scan had begun, and the Findings
\* of an earlier scanner are in the report
C13_Witness ==
  /\ exit_message = "Scan completed"
  /\ args.scan_type = "all"
  /\ failed = << "redirect" >>
  /\ scan_types_performed = << "xss", "sqli", "http" >>
  /\ Len(all_vulnerabilities) = Len(REQUIRED_SECURITY_HEADERS)
  /\ reports = << all_vulnerabilities >>
  /\ log # << >>

(***************************************************************************)
(* SQLiScanner.scan: the two checks of a trial                             *)
(***************************************************************************)
\* the Findings of vulns for (payload, param), of any type
FindingsFor(vulns, payload, param) ==
  Positions(vulns, LAMBDA f : f.payload = payload /\ f.parameter = param)

\* C14: in SQLiScanner.scan the baseline request and the boolean-based
\* check of a trial follow every answered payload request, whether or not an
\* error pattern matched; a (payload, parameter) trial yields at most two
\* Findings, at most one of each type, the Error-Based one right before the
\* Boolean-Based one; a trial whose body matches a pattern and whose delta
\* exceeds the threshold yields both.
C14_BothChecksPerTrial ==
  scan_type = "sqli" =>
    /\ \A k \in 1..Len(SQLI_PAYLOADS), j \in 1..Len(params) :
         LET E == ErrorFindingsFor(vulnerabilities, SQLI_PAYLOADS[k], params[j][1])
             B == BooleanFindingsFor(vulnerabilities, SQLI_PAYLOADS[k], params[j][1])
             All == FindingsFor(vulnerabilities, SQLI_PAYLOADS[k], params[j][1])
         IN  /\ All = E \cup B
             /\ Cardinality(All) <= 2
             /\ Cardinality(E) <= 1
             /\ Cardinality(B) <= 1
             /\ \A e \in E, b \in B : b = e + 1
    /\ \A i \in 1..Len(log) :
         (log[i].role = "probe" /\ log[i].outcome.ok) =>
           IF i = Len(log)
             THEN pc = "sqli_baseline"
             ELSE /\ log[i + 1].role = "baseline"
                  /\ log[i + 1].payload = log[i].payload
                  /\ log[i + 1].param = log[i].param
    /\ \A i \in 2..Len(log) :
         ( /\ log[i].role = "baseline"
           /\ log[i].outcome.ok
           /\ Delta(log[i - 1], log[i]) > RESPONSE_LENGTH_THRESHOLD
           /\ Matches(log[i - 1].outcome.text) # {} ) =>
             /\ ErrorFindingsFor(vulnerabilities, log[i].payload, log[i].param) # {}
             /\ BooleanFindingsFor(vulnerabilities, log[i].payload, log[i].param) # {}

\* a scan has returned with a trial that yielded two Findings, the
\* Error-Based one first, and a trial that yielded one, and one that
\* yielded none
C14_Witness ==
  /\ scan_type = "sqli"
  /\ pc = "idle"
  /\ results # << >>
  /\ \E i, k, m \in 1..Len(log) :
       /\ log[i].role = "probe" /\ log[k].role = "probe" /\ log[m].role = "probe"
       /\ Cardinality(FindingsFor(LastResult, log[i].payload, log[i].param)) = 2
       /\ \E e \in ErrorFindingsFor(LastResult, log[i].payload, log[i].param) :
            e + 1 \in BooleanFindingsFor(LastResult, log[i].payload, log[i].param)
       /\ Cardinality(FindingsFor(LastResult, log[k].payload, log[k].param)) = 1
       /\ Cardinality(FindingsFor(LastResult, log[m].payload, log[m].param)) = 0

\* the position of the exchange's trial in the order of the two loops
TrialNumber(e) ==
  (IndexOf(SQLI_PAYLOADS, e.payload) - 1) * Len(params) + IndexOf(DictKeys(params), e.param)

\* after exchange i the scan is at the trial that follows the one of i
ContinuesAfter(i) ==
  IF i < Len(log)
    THEN /\ log[i + 1].role = "probe"
         /\ TrialNumber(log[i + 1]) = TrialNumber(log[i]) + 1
    ELSE IF TrialNumber(log[i]) = Len(SQLI_PAYLOADS) * Len(params)
      THEN pc = "idle" /\ results # << >> /\ LastResult = vulnerabilities
      ELSE pc = "sqli" /\ (pi - 1) * Len(params) + pj = TrialNumber(log[i]) + 1

\* C15: in SQLiScanner.scan a failed baseline request leaves the trial
\* without a Boolean-Based Finding and with the Error-Based Finding its
\* payload response earned; a failed payload request leaves the trial
\* without any Finding and without a baseline request; after either failure
\* the scan goes on with the next trial, and the Findings are exactly those
\* of the checks whose requests were answered.
C15_FailureSkipsOnlyItsSubCheck ==
  scan_type = "sqli" =>
    /\ \A i \in 1..Len(log) :
         (log[i].role = "baseline" /\ ~ log[i].outcome.ok) =>
           /\ BooleanFindingsFor(vulnerabilities, log[i].payload, log[i].param) = {}
           /\ Cardinality(ErrorFindingsFor(vulnerabilities, log[i].payload, log[i].param))
                = (IF Matches(log[i - 1].outcome.text) # {} THEN 1 ELSE 0)
           /\ ContinuesAfter(i)
    /\ \A i \in 1..Len(log) :
         (log[i].role = "probe" /\ ~ log[i].outcome.ok) =>
           /\ FindingsFor(vulnerabilities, log[i].payload, log[i].param) = {}
           /\ \A k \in 1..Len(log) :
                (log[k].payload = log[i].payload /\ log[k].param = log[i].param) => k = i
           /\ ContinuesAfter(i)
    /\ Len(vulnerabilities) =
         Cardinality({ i \in 1..Len(log) :
                         /\ log[i].role = "probe"
                         /\ log[i].outcome.ok
                         /\ Matches(log[i].outcome.text) # {} })
         + Cardinality({ i \in 2..Len(log) :
                           /\ log[i].role = "baseline"
                           /\ log[i].outcome.ok
                           /\ Delta(log[i - 1], log[i]) > RESPONSE_LENGTH_THRESHOLD })

\* a scan has returned in which the payload request of one trial failed, no
\* baseline request was made for it, and the next trial, whose body matched
\* an error pattern, has its Finding in the result
C15_Witness ==
  /\ scan_type = "sqli"
  /\ pc = "idle"
  /\ results # << >>
  /\ \E i \in 1..(Len(log) - 1) :
       /\ log[i].role = "probe"
       /\ ~ log[i].outcome.ok
       /\ FindingsFor(LastResult, log[i].payload, log[i].param) = {}
       /\ log[i + 1].role = "probe"
       /\ log[i + 1].outcome.ok
       /\ ErrorFindingsFor(LastResult, log[i + 1].payload, log[i + 1].param) # {}

\* C16 as stated: the baseline request of a trial carries
\* every parameter of the target URL with its original value, so that it
\* differs from the trial's payload request only in the value of the
\* injected parameter
C16_AsStated ==
  scan_type = "sqli" =>
    \A i \in 2..Len(log) :
      log[i].role = "baseline" =>
        /\ log[i].request.params = params
        /\ DictKeys(log[i].request.params) = DictKeys(log[i - 1].request.params)
        /\ \A k \in 1..Len(log[i - 1].request.params) :
             log[i - 1].request.params[k][1] # log[i].param =>
               log[i].request.params[k] = log[i - 1].request.params[k]

(***************************************************************************)
(* Independence of the trials                                              *)
(***************************************************************************)
\* what the trial of exchange i emits when it is run on its own, from an
\* empty accumulator, with the answers it got: a function of the trial's
\* own request(s) and answer(s)
OwnFindings(i) ==
  LET e == log[i]
  IN  IF ~ e.outcome.ok THEN {}
      ELSE CASE scan_type = "xss" ->
                  Range(XSSCheck(<< >>, e.payload, e.param, e.outcome))
             [] scan_type = "redirect" ->
                  Range(RedirectCheck(<< >>, e.param, e.request.url, e.outcome))
             [] scan_type = "sqli" /\ e.role = "probe" ->
                  Range(ErrorCheck(<< >>, e.payload, e.param, e.outcome))
             [] scan_type = "sqli" /\ e.role = "baseline" ->
                  Range(BooleanCheck(<< >>, e.payload, e.param, log[i - 1].outcome, e.outcome))
             [] OTHER -> {}

\* C17: in the XSS, SQLi and Open-Redirect scans the Findings are, as a
\* set, the union over the trials of what each trial emits on its own from
\* its own request(s) and answer(s), without repetition: no trial's Finding
\* depends on an earlier trial having emitted one or failed, so the set is
\* the same for every order of the trials.
C17_TrialsIndependent ==
  scan_type \in { "xss", "sqli", "redirect" } =>
    /\ Range(vulnerabilities) = UNION { OwnFindings(i) : i \in 1..Len(log) }
    /\ Len(vulnerabilities) = Cardinality(Range(vulnerabilities))
    /\ (pc = "idle" /\ results # << >>) => LastResult = vulnerabilities

\* an XSS scan has returned the Findings of two trials of the same parameter,
\* the second one emitted although the first already had
C17_Witness ==
  /\ scan_type = "xss"
  /\ pc = "idle"
  /\ results # << >>
  /\ \E i, k \in 1..Len(log) :
       /\ i < k
       /\ log[i].param = log[k].param
       /\ XSSFindingsFor(LastResult, log[i].payload, log[i].param) # {}
       /\ XSSFindingsFor(LastResult, log[k].payload, log[k].param) # {}

(***************************************************************************)
(* The parameters of the payload requests                                  *)
(***************************************************************************)
\* C18: every payload request of an XSS or SQLi scan carries the keys of
\* the target URL's parameters, in their order, each with its original
\* value except the injected one, whose value is the payload; the scan's
\* parameter mapping is, during and after the scan, the one extracted from
\* the target URL.
C18_OnlyInjectedParamChanges ==
  (scan_type \in { "xss", "sqli" } /\ target_url # << >>) =>
    /\ params = extract_params(target_url)
    /\ target_url = << "http", "://", "example.com", "/", "search", "?", "q", "=", "a+b",
                       "&", "id", "=", "1" >>
         => params = << << "q", "a b" >>, << "id", "1" >> >>
    /\ \A i \in 1..Len(log) :
         log[i].role = "probe" =>
           /\ Len(log[i].request.params) = Len(params)
           /\ \A k \in 1..Len(params) :
                /\ log[i].request.params[k][1] = params[k][1]
                /\ log[i].request.params[k][2] =
                     (IF params[k][1] = log[i].param THEN log[i].payload ELSE params[k][2])

\* a scan of the two-parameter target has returned; after the trial that
\* injected the first payload into "q", the trial of "id" was sent with the
\* original value of "q"
C18_Witness ==
  /\ scan_type \in { "xss", "sqli" }
  /\ pc = "idle"
  /\ results # << >>
  /\ Len(params) = 2
  /\ \E i, k \in 1..Len(log) :
       /\ i < k
       /\ log[i].role = "probe" /\ log[i].param = "q"
       /\ log[k].role = "probe" /\ log[k].param = "id"
       /\ log[i].request.params = << << "q", log[i].payload >>, << "id", "1" >> >>
       /\ log[k].request.params = << << "q", "a b" >>, << "id", log[k].payload >> >>
  /\ params = << << "q", "a b" >>, << "id", "1" >> >>

(***************************************************************************)
(* The requests of a scan                                                  *)
(***************************************************************************)
\* the exchanges of the call with the given role
WithRole(role) == { i \in 1..Len(log) : log[i].role = role }

\* the call has returned
Returned == pc = "idle" /\ results # << >> /\ target_url # << >>

\* C19: within one scan no request is made twice, answered or not: the XSS
\* scan makes exactly 5 x |params| requests, the Open-Redirect scan exactly
\* 7, the HTTP scan one GET and then at most one OPTIONS, and the SQLi scan
\* exactly one payload request per (payload, parameter) trial and at most
\* one baseline request per trial, each baseline right after the answered
\* payload request of its own trial.
C19_NoRetries ==
  /\ \A i, k \in 1..Len(log) :
       ( /\ log[i].role = log[k].role
         /\ log[i].payload = log[k].payload
         /\ log[i].param = log[k].param ) => i = k
  /\ scan_type = "xss" =>
       /\ Len(log) <= 5 * Len(params)
       /\ Returned => Len(log) = 5 * Len(params)
  /\ scan_type = "redirect" =>
       /\ Len(log) <= 7
       /\ Returned => Len(log) = 7
  /\ scan_type = "http" =>
       /\ Len(log) <= 2
       /\ Len(log) >= 1 => log[1].request.method = "GET"
       /\ Len(log) = 2 => log[1].outcome.ok /\ log[2].request.method = "OPTIONS"
       /\ Returned => Len(log) >= 1
  /\ scan_type = "sqli" =>
       /\ Cardinality(WithRole("probe")) <= Len(SQLI_PAYLOADS) * Len(params)
       /\ Returned => Cardinality(WithRole("probe")) = Len(SQLI_PAYLOADS) * Len(params)
       /\ \A i \in WithRole("baseline") :
            /\ i > 1
            /\ log[i - 1].role = "probe"
            /\ log[i - 1].outcome.ok
            /\ log[i - 1].payload = log[i].payload
            /\ log[i - 1].param = log[i].param
       /\ Returned => Cardinality(WithRole("baseline"))
                        = Cardinality({ i \in WithRole("probe") : log[i].outcome.ok })

\* an SQLi scan of a target with parameters has returned after a payload
\* request that failed and a baseline request that failed: neither was
\* made again
C19_Witness ==
  /\ scan_type = "sqli"
  /\ Returned
  /\ params # << >>
  /\ \E i \in WithRole("probe") : ~ log[i].outcome.ok
  /\ \E i \in WithRole("baseline") : ~ log[i].outcome.ok
  /\ Len(log) = 2 * Len(SQLI_PAYLOADS) * Len(params) - 1

(***************************************************************************)
(* extract_params                                                          *)
(***************************************************************************)
\* the name=value fields of the URL's query string as written: <<name,
\* value>> in order, the value "" when it is blank; a bare name without "="
\* is not counted as a key
FieldsOf(url) ==
  LET q == IndexOf(url, "?")
      all == IF q = 0 \/ q = Len(url) THEN << >>
             ELSE Split(SubSeq(url, q + 1, Len(url)), << "&" >>)
      pieces == SelectSeq(all, LAMBDA p : Len(p) >= 2 /\ p[2] = "=")
  IN  [ i \in 1..Len(pieces) |->
          << pieces[i][1], IF Len(pieces[i]) >= 3 THEN pieces[i][3] ELSE "" >> ]

\* the first value written for name among the fields
FirstValue(fields, name) ==
  fields[CHOOSE i \in 1..Len(fields) :
           fields[i][1] = name /\ \A k \in 1..(i - 1) : fields[k][1] # name][2]

\* C20 as stated: the keys of extract_params(url) are the
\* keys that occur in the URL's query string, each mapped to the first value
\* given for it there, and the mapping is empty when there is no query
\* string
C20_AsStated ==
  pc = "extracted" =>
    LET fields == FieldsOf(target_url)
    IN  /\ Range(DictKeys(params)) = { fields[i][1] : i \in 1..Len(fields) }
        /\ \A k \in 1..Len(params) : params[k][2] = FirstValue(fields, params[k][1])
        /\ IndexOf(target_url, "?") = 0 => params = << >>

\* what extract_params keeps of C20: the keys are those that have a
\* value that is not blank, each mapped to its first such value, and the
\* mapping is empty when there is no query string
C20_FirstNonBlankValueWins ==
  pc = "extracted" =>
    LET fields == SelectSeq(FieldsOf(target_url), LAMBDA f : f[2] # "")
    IN  /\ Range(DictKeys(params)) = { fields[i][1] : i \in 1..Len(fields) }
        /\ Len(params) = Cardinality(Range(DictKeys(params)))
        /\ \A k \in 1..Len(params) : params[k][2] = FirstValue(fields, params[k][1])
        /\ IndexOf(target_url, "?") = 0 => params = << >>

(***************************************************************************)
(* The returned lists                                                      *)
(***************************************************************************)
\* what the list object holds now: the accumulator's contents when the
\* attribute is still bound to it, its last contents otherwise
Contents(object) ==
  IF object = Accumulator(heap) THEN vulnerabilities ELSE heap[object]

\* C21: every list object a scan call returned holds, at any later time and
\* through any later scan call on the same instance, exactly the Findings
\* it held when it was returned.
C21_ReturnedListsStay ==
  /\ Len(refs) = Len(results)
  /\ \A n \in 1..Len(refs) : Contents(refs[n]) = results[n]

\* a later call on the instance has gone through its reset and returned an
\* empty list, and the list the earlier call returned, another object,
\* still holds its Findings
C21_Witness ==
  /\ Len(refs) = 2
  /\ pc = "idle"
  /\ refs[1] # refs[2]
  /\ results[1] # << >>
  /\ Contents(refs[1]) = results[1]
  /\ Contents(refs[2]) = << >>

====
